---- MODULE Spec2Model ----
(***************************************************************************)
(* loopctl (itlctl): the resource compiler, the deferred-value graph, the  *)
(* reconciler and the apply orchestrator of src/loopctl/__main__.py.       *)
(*                                                                         *)
(* Python values are modelled as follows.                                  *)
(*   - str used as a name, a namespace or a dict key of metadata: a TLA+   *)
(*     string;                                                             *)
(*   - str used as an identifier (clientId, apiKey, ...): a positive       *)
(*     integer (0 is the empty string); identifiers made by random_id are  *)
(*     random_id(0), random_id(1), ... in the order os.urandom is asked;   *)
(*   - a key of a spec dict: PyStr(s), so that a lookup with an object of  *)
(*     another type (a ConfigKey) is defined and misses, as in Python;     *)
(*   - an ordered dict: a sequence in insertion order.                     *)
(***************************************************************************)
EXTENDS Integers, Sequences, FiniteSets, TLC

VARIABLES
    new_configs,         \* Commander.apply: the sorted desired (path, i, config) list
    disk,                \* the files under the resources and secrets roots, in walk order
    existing_resources,  \* global: ordered dict ResourceReference -> LocatedResource
    compiled_resources,  \* global: ordered dict ResourceReference -> Resource
    generated_values,    \* global: ConfigKey -> identifier
    id_to_reference,     \* global: ResourceId -> ResourceReference
    urandom,             \* how many identifiers os.urandom has supplied so far
    returned,            \* history: what each call of get_generated_id returned
    pc,                  \* the position of Commander.apply
    push_index,          \* the position of the push loop in compiled_resources
    requests,            \* every PUT sent to the remote service, with its answer
    pushed,              \* per push attempted: the resource and what apply() returned
    updated_configs,     \* what link_resources returned: the files to write
    written,             \* the paths written by this run, in order
    stage_error,         \* the stage that printed an error or raised, "" when none
    exit_status,         \* the process exit status once the run has ended
    run                  \* which run of the tool this is (1 = first)

vars == <<new_configs, disk, existing_resources, compiled_resources, generated_values,
          id_to_reference, urandom, returned, pc, push_index, requests, pushed,
          updated_configs, written, stage_error, exit_status, run>>

(***************************************************************************)
(* Bounds of the model.                                                    *)
(***************************************************************************)
MaxDesired == 2
MaxPersisted == 1
MaxRuns == 2

(***************************************************************************)
(* The frozen dataclasses and the constants.                               *)
(***************************************************************************)
ResourceReference(kind, name) == [kind |-> kind, name |-> name]

ResourceId(kind, id) == [kind |-> kind, id |-> id]

ConfigKey(reference, key) == [reference |-> reference, key |-> key]

LocatedResource(path, index, resource) ==
    [path |-> path, index |-> index, resource |-> resource]

CONFIG_PRIORITY ==
    [k \in {"ResourceDefs", "ApiKey", "Client", "Group", "Loop", "Stream", "Cluster"} |->
        CASE k = "ResourceDefs" -> 0
          [] k = "ApiKey" -> 1
          [] k = "Client" -> 2
          [] k = "Group" -> 3
          [] k = "Loop" -> 4
          [] k = "Stream" -> 5
          [] k = "Cluster" -> 6]

config_priority(config) == CONFIG_PRIORITY[config.kind]

(***************************************************************************)
(* Python values that occur in a spec dict.                                *)
(***************************************************************************)
PyStr(s) == [str |-> s]

NoConfigKey == ConfigKey(ResourceReference("", ""), "")

None == [type |-> "NoneType", id |-> 0, configKey |-> NoConfigKey]

PyId(i) == [type |-> "str", id |-> i, configKey |-> NoConfigKey]

DeferredId(kind, name, field) ==
    [type |-> "DeferredId", id |-> 0,
     configKey |-> ConfigKey(ResourceReference(kind, name), field)]

ApiKeyId(name) ==
    [type |-> "ApiKeyId", id |-> 0,
     configKey |-> ConfigKey(ResourceReference("ApiKey", name), "apiKey")]

ClientId(name) == DeferredId("Client", name, "clientId")

GroupId(name) == DeferredId("Group", name, "groupId")

LoopId(name) == DeferredId("Loop", name, "loopId")

StreamId(name) == DeferredId("Stream", name, "streamId")

ClusterId(name) == DeferredId("Cluster", name, "clusterId")

IsDeferredValue(v) == v.type \in {"DeferredId", "ApiKeyId"}

\* A list of n literals; dacTags and the access lists default to [].
PyList(n) == [type |-> "list", id |-> n, configKey |-> NoConfigKey]

\* Python truth of a value: None, the empty string and the empty list are
\* falsy, objects are truthy.
Truthy(v) == v.type # "NoneType" /\ ~(v.type \in {"str", "list"} /\ v.id = 0)

\* dict.get(k): the value stored under a key equal to k, None when there is none.
DictGet(d, k) == IF k \in DOMAIN d THEN d[k] ELSE None

\* metadata.namespace: a literal string, or a Remote placeholder whose
\* resource_reference is the reference of the resource that carries it.
NsStr(s) == [type |-> "str", remote |-> s]

Remote(remote) == [type |-> "Remote", remote |-> remote]

NoParent == [type |-> "NoneType", kind |-> "", name |-> "", id |-> 0]

ParentReference(kind, name) ==
    [type |-> "ResourceReference", kind |-> kind, name |-> name, id |-> 0]

ParentId(kind, id) == [type |-> "ResourceId", kind |-> kind, name |-> "", id |-> id]

\* The outcome of a constructor or of a link: a status and a value.
Raised(exc) == [status |-> exc]

(***************************************************************************)
(* validate_keys and the per-kind key tables of the constructors.          *)
(***************************************************************************)
\* Only the required keys are looked for.
RequiredOnly(keys, required_keys, optional_keys) == required_keys \subseteq keys

validate_keys(keys, required_keys, optional_keys) ==
    IF ~(required_keys \subseteq keys) THEN FALSE
    ELSE IF ~(keys \subseteq (required_keys \cup optional_keys)) THEN FALSE
    ELSE TRUE

PyStrs(S) == {PyStr(s) : s \in S}

DacDefault == {"dacDefaultRead", "dacDefaultWrite", "dacDefaultExecute"}

DacLists == {"dacWhitelistRead", "dacWhitelistWrite", "dacWhitelistExecute",
             "dacBlacklistRead", "dacBlacklistWrite", "dacBlacklistExecute"}

MacLists == {"macTags", "macWhitelistRead", "macWhitelistWrite", "macWhitelistExecute",
             "macBlacklistRead", "macBlacklistWrite", "macBlacklistExecute"}

GroupLists == {"public", "includeClients", "includeOrgs", "includeGroups",
               "excludeClients", "excludeOrgs", "excludeGroups"}

\* ResourceDefs mode: the keys a member of a bundle must and may have.
BundleRequired(kind) ==
    CASE kind = "ApiKey" -> {"name", "clientName"}
      [] kind = "Client" -> {"name"}
      [] kind = "Stream" -> {"name", "loop"}
      [] OTHER -> {"name", "owner"}

BundleOptional(kind) ==
    CASE kind = "ApiKey" -> {}
      [] kind = "Client" ->
            {"remote", "parentName", "dacTags"} \cup DacDefault \cup DacLists \cup MacLists
      [] kind = "Group" -> GroupLists
      [] kind = "Stream" -> DacLists
      [] OTHER -> DacDefault \cup DacLists

\* Standalone mode: the keys the spec of a document must and may have.
SpecRequired(kind) ==
    CASE kind = "ApiKey" -> {"clientId", "apiKey"}
      [] kind = "Client" -> {"clientId"}
      [] kind = "Group" -> {"ownerId", "groupId"}
      [] kind = "Loop" -> {"ownerId", "loopId"}
      [] kind = "Stream" -> {"loopId", "streamId"}
      [] kind = "Cluster" -> {"ownerId", "clusterId"}

SpecOptional(kind) ==
    CASE kind = "ApiKey" -> {}
      [] kind = "Client" -> {"parentId", "dacTags"} \cup DacDefault \cup DacLists \cup MacLists
      [] kind = "Group" -> GroupLists
      [] kind = "Stream" -> DacLists
      [] OTHER -> DacDefault \cup DacLists

\* The field that holds a resource's own identifier, the field that names its
\* parent, and the kind of that parent.
IdField(kind) ==
    CASE kind = "ApiKey" -> "apiKey"
      [] kind = "Client" -> "clientId"
      [] kind = "Group" -> "groupId"
      [] kind = "Loop" -> "loopId"
      [] kind = "Stream" -> "streamId"
      [] kind = "Cluster" -> "clusterId"

ParentField(kind) ==
    CASE kind = "ApiKey" -> "clientId"
      [] kind = "Client" -> "parentId"
      [] kind = "Stream" -> "loopId"
      [] OTHER -> "ownerId"

ParentKind(kind) == IF kind = "Stream" THEN "Loop" ELSE "Client"

\* The insertion order of the spec dict the constructors build.
SpecOrder(kind) ==
    IF kind = "Client" THEN <<"clientId", "parentId", "dacTags">>
    ELSE <<ParentField(kind), IdField(kind)>>

(***************************************************************************)
(* The constructors ApiKey, Client, Group, Loop, Stream, Cluster. A        *)
(* constructor ends "ok" with the resource and the id_to_reference entries *)
(* it registers, or raises ValueError.                                     *)
(***************************************************************************)
Constructed(resource, registered) ==
    [status |-> "ok", resource |-> resource, registered |-> registered]

NewResource(kind, name, parent, metadata, spec) ==
    [kind |-> kind, name |-> name, parent_ref_or_id |-> parent, valid |-> TRUE,
     config |-> [apiVersion |-> "thatone.ai/v1", kind |-> kind,
                 metadata |-> metadata, spec |-> spec]]

\* kind == "ResourceDefs": a member of a bundle, identifiers and namespace deferred.
FromResourceDefs(kind, config) ==
    IF ~validate_keys(DOMAIN config, BundleRequired(kind), BundleOptional(kind))
    THEN Raised("ValueError")
    ELSE
    LET name == config.name
        parent ==
            CASE kind = "ApiKey" -> ParentReference("Client", config.clientName)
              [] kind = "Client" ->
                    IF "parentName" \in DOMAIN config
                    THEN ParentReference("Client", config.parentName) ELSE NoParent
              [] kind = "Stream" -> ParentReference("Loop", config.loop)
              [] OTHER -> ParentReference("Client", config.owner)
        remote == IF kind = "Client" /\ "remote" \in DOMAIN config THEN config.remote ELSE ""
        parentValue ==
            IF parent.type = "NoneType" THEN None
            ELSE DeferredId(parent.kind, parent.name, IdField(parent.kind))
        ownValue == IF kind = "ApiKey" THEN ApiKeyId(name)
                    ELSE DeferredId(kind, name, IdField(kind))
        lists == IF kind = "Client" THEN (PyStr("dacTags") :> PyList(0)) ELSE <<>>
        spec == (PyStr(ParentField(kind)) :> parentValue) @@ (PyStr(IdField(kind)) :> ownValue)
                @@ lists
    IN  Constructed(
            NewResource(kind, name, parent, [name |-> name, namespace |-> Remote(remote)], spec),
            <<>>)

\* kind == the resource's own kind: a document read back, literal values.
FromDocument(kind, config) ==
    IF "namespace" \notin DOMAIN config.metadata THEN Raised("ValueError")
    ELSE IF ~validate_keys(DOMAIN config.spec, PyStrs(SpecRequired(kind)),
                           PyStrs(SpecOptional(kind)))
    THEN Raised("ValueError")
    ELSE
    LET name == config.metadata.name
        parentValue == DictGet(config.spec, PyStr(ParentField(kind)))
        parent ==
            CASE kind = "ApiKey" -> NoParent
              [] kind = "Client" ->
                    IF Truthy(parentValue) THEN ParentId("Client", parentValue.id)
                    ELSE NoParent
              [] OTHER -> ParentId(ParentKind(kind), parentValue.id)
        registered ==
            IF kind = "ApiKey" THEN <<>>
            ELSE << [id |-> ResourceId(kind, config.spec[PyStr(IdField(kind))].id),
                     reference |-> ResourceReference(kind, name)] >>
    IN  Constructed(
            [kind |-> kind, name |-> name, parent_ref_or_id |-> parent, valid |-> TRUE,
             config |-> config],
            registered)

reference(resource) == ResourceReference(resource.kind, resource.name)

namespace(resource) ==
    IF "namespace" \in DOMAIN resource.config.metadata
    THEN resource.config.metadata.namespace ELSE NsStr("")

(***************************************************************************)
(* compile_resourcedefs and compile_config. The result is "ok" with the    *)
(* resources in the order they are yielded and what their constructors     *)
(* registered, or ValueError: list() of the generator then yields nothing. *)
(***************************************************************************)
\* The loop over the clients comes before the loop over the apikeys.
ClientsFirst == <<"clients", "apikeys", "groups", "loops", "streams", "clusters">>

Sections == <<"apikeys", "clients", "groups", "loops", "streams", "clusters">>

SectionKind(section) ==
    CASE section = "apikeys" -> "ApiKey"
      [] section = "clients" -> "Client"
      [] section = "groups" -> "Group"
      [] section = "loops" -> "Loop"
      [] section = "streams" -> "Stream"
      [] section = "clusters" -> "Cluster"

\* items.get(section, [])
SectionItems(items, section) == IF section \in DOMAIN items THEN items[section] ELSE <<>>

\* Every member of the bundle with its kind, in the order the six loops visit them.
RECURSIVE BundleMembers(_, _)
BundleMembers(items, s) ==
    IF s > Len(Sections) THEN <<>>
    ELSE [i \in 1..Len(SectionItems(items, Sections[s])) |->
             [kind |-> SectionKind(Sections[s]),
              config |-> SectionItems(items, Sections[s])[i]]]
         \o BundleMembers(items, s + 1)

compile_resourcedefs(config) ==
    LET Collect(built) ==
            IF \/ ~validate_keys(DOMAIN config.spec, {},
                                 {Sections[s] : s \in 1..Len(Sections)})
               \/ \E i \in 1..Len(built) : built[i].status # "ok"
            THEN Raised("ValueError")
            ELSE [status |-> "ok",
                  resources |-> [i \in 1..Len(built) |-> built[i].resource],
                  registered |-> <<>>]
        Build(members) ==
            Collect([i \in 1..Len(members) |->
                        FromResourceDefs(members[i].kind, members[i].config)])
    IN  Build(BundleMembers(config.spec, 1))

compile_config(config) ==
    LET One(c) == IF c.status # "ok" THEN c
                  ELSE [status |-> "ok", resources |-> <<c.resource>>,
                        registered |-> c.registered]
    IN  IF config.kind = "ResourceDefs" THEN compile_resourcedefs(config)
        ELSE IF config.kind \in {"ApiKey", "Group", "Client", "Loop", "Stream", "Cluster"}
        THEN One(FromDocument(config.kind, config))
        ELSE Raised("ValueError")

(***************************************************************************)
(* The global indices as one value g, so that an operator that mutates     *)
(* them returns the new g: compiled_resources, existing_resources,         *)
(* generated_values, id_to_reference, the position of os.urandom and the   *)
(* history of get_generated_id. Intermediate results are passed on as      *)
(* operator parameters.                                                    *)
(***************************************************************************)
Globals(compiled, existing, generated, ids, random, history) ==
    [compiled_resources |-> compiled, existing_resources |-> existing,
     generated_values |-> generated, id_to_reference |-> ids, urandom |-> random,
     returned |-> history]

\* The position of a key in an ordered dict of resources, 0 when it is absent.
CompiledIndex(g, ref) ==
    IF \E i \in 1..Len(g.compiled_resources) : reference(g.compiled_resources[i]) = ref
    THEN CHOOSE i \in 1..Len(g.compiled_resources) : reference(g.compiled_resources[i]) = ref
    ELSE 0

ExistingIndex(g, ref) ==
    IF \E i \in 1..Len(g.existing_resources) :
            reference(g.existing_resources[i].resource) = ref
    THEN CHOOSE i \in 1..Len(g.existing_resources) :
            reference(g.existing_resources[i].resource) = ref
    ELSE 0

\* The result names the table and the position of the object, so that a
\* later assignment to .valid reaches the same object.
get_resource_by_reference(g, ref) ==
    LET Found(created, existing) ==
            IF created > 0
            THEN [status |-> "ok", table |-> "compiled", index |-> created,
                  resource |-> g.compiled_resources[created]]
            ELSE IF existing > 0
            THEN [status |-> "ok", table |-> "existing", index |-> existing,
                  resource |-> g.existing_resources[existing].resource]
            ELSE [status |-> "None"]
    IN  Found(CompiledIndex(g, ref), ExistingIndex(g, ref))

(***************************************************************************)
(* random_id and get_generated_id.                                         *)
(***************************************************************************)
\* The n-th identifier os.urandom yields: 20 random bytes, distinct from every
\* identifier written in a document and from every earlier one.
random_id(n) == 1000 + n

\* created.config["spec"] and existing.resource.config["spec"], the empty
\* dict when the reference is in neither table.
CreatedSpec(g, ref) ==
    LET At(created) == IF created > 0 THEN g.compiled_resources[created].config.spec
                       ELSE <<>>
    IN  At(CompiledIndex(g, ref))

ExistingSpec(g, ref) ==
    LET At(existing) ==
            IF existing > 0 THEN g.existing_resources[existing].resource.config.spec
            ELSE <<>>
    IN  At(ExistingIndex(g, ref))

\* new_id = f"{prefix}{random_id()}"; generated_values[configKey] = new_id
Allocate(g, configKey) ==
    [result |-> random_id(g.urandom),
     g |-> [g EXCEPT !.urandom = @ + 1,
                     !.generated_values = (configKey :> random_id(g.urandom)) @@ @]]

\* `return`: the history records the ConfigKey and the value returned for it.
Returned(r, configKey) ==
    [result |-> r.result,
     g |-> [r.g EXCEPT !.returned =
                Append(@, [configKey |-> configKey, result |-> r.result])]]

ForgetfulGetGeneratedId(g, configKey) == Returned(Allocate(g, configKey), configKey)

\* Both lookups pass the ConfigKey itself to .get() of a dict whose keys are
\* field names.
get_generated_id(g, configKey) ==
    LET Resolve(fromCreated, fromExisting) ==
            IF Truthy(fromCreated) /\ ~IsDeferredValue(fromCreated)
            THEN [result |-> fromCreated.id, g |-> g]
            ELSE IF configKey \in DOMAIN g.generated_values
            THEN [result |-> g.generated_values[configKey], g |-> g]
            ELSE IF Truthy(fromExisting)
            THEN [result |-> fromExisting.id, g |-> g]
            ELSE Allocate(g, configKey)
    IN  Returned(Resolve(DictGet(CreatedSpec(g, configKey.reference), configKey),
                         DictGet(ExistingSpec(g, configKey.reference), configKey)),
                 configKey)

\* DeferredId.link and ApiKeyId.link; a literal links to itself. This is also
\* what str(value) evaluates, since DeferredValue.__str__ is link().
LinkValue(g, value) ==
    LET Linked(r) ==
            IF value.type = "ApiKeyId" THEN [result |-> PyId(r.result), g |-> r.g]
            ELSE [result |-> PyId(r.result),
                  g |-> [r.g EXCEPT !.id_to_reference =
                            (ResourceId(value.configKey.reference.kind, r.result)
                                :> value.configKey.reference) @@ @]]
    IN  IF ~IsDeferredValue(value) THEN [result |-> value, g |-> g]
        ELSE Linked(get_generated_id(g, value.configKey))

(***************************************************************************)
(* Resource.parent and Remote.link.                                        *)
(***************************************************************************)
\* "ok" with the parent, "None" when there is none, KeyError when the parent
\* is named by an id that id_to_reference does not hold.
parent(g, resource) ==
    LET Of(p) ==
            IF p.type = "NoneType" THEN [status |-> "None"]
            ELSE IF /\ p.type = "ResourceId"
                    /\ ResourceId(p.kind, p.id) \notin DOMAIN g.id_to_reference
            THEN [status |-> "KeyError"]
            ELSE get_resource_by_reference(
                     g, IF p.type = "ResourceReference"
                        THEN ResourceReference(p.kind, p.name)
                        ELSE g.id_to_reference[ResourceId(p.kind, p.id)])
    IN  Of(resource.parent_ref_or_id)

KnownResources(g) == Len(g.compiled_resources) + Len(g.existing_resources)

\* The while loop of Remote.link from `resource` on. The loop has no bound of
\* its own: on a chain that never ends it does not return, which is "hang",
\* reported once more steps were taken than there are resources.
RECURSIVE RemoteWalk(_, _, _)
RemoteWalk(g, resource, steps) ==
    LET Step(ns, up) ==
            IF steps > KnownResources(g) THEN Raised("hang")
            ELSE IF ns.type = "str" /\ ns.remote # ""
            THEN [status |-> "ok", result |-> ns.remote]
            ELSE IF ns.type = "Remote" /\ ns.remote # ""
            THEN [status |-> "ok", result |-> ns.remote]
            ELSE IF up.status = "KeyError" THEN Raised("KeyError")
            ELSE IF up.status = "None" THEN Raised("ValueError")
            ELSE RemoteWalk(g, up.resource, steps + 1)
    IN  Step(namespace(resource), parent(g, resource))

\* Remote.link for the placeholder ns carried by the resource named ref.
RemoteLink(g, ref, ns) ==
    LET From(own) == IF own.status # "ok" THEN Raised("ValueError")
                     ELSE RemoteWalk(g, own.resource, 0)
    IN  IF ns.remote # "" THEN [status |-> "ok", result |-> ns.remote]
        ELSE From(get_resource_by_reference(g, ref))

\* Remote.link without the walk up the parents.
OwnNamespace(g, resource) == [status |-> "ok", result |-> namespace(resource).remote]

\* link() of metadata.namespace, and str(self.namespace).
LinkNamespace(g, resource) ==
    LET Of(ns) == IF ns.type = "Remote" THEN RemoteLink(g, reference(resource), ns)
                  ELSE [status |-> "ok", result |-> ns.remote]
    IN  Of(namespace(resource))

(***************************************************************************)
(* link(value) on a spec dict and Resource.link.                           *)
(***************************************************************************)
RECURSIVE SetToSeq(_)
SetToSeq(S) ==
    IF S = {} THEN <<>>
    ELSE LET Put(x) == <<x>> \o SetToSeq(S \ {x}) IN Put(CHOOSE y \in S : TRUE)

\* The keys of a spec dict in iteration order: the constructor's fields
\* first, then whatever else a document carries.
SpecKeys(resource) ==
    LET Rest(ordered) ==
            ordered \o SetToSeq(DOMAIN resource.config.spec
                                \ {ordered[i] : i \in 1..Len(ordered)})
    IN  Rest(SelectSeq([i \in 1..Len(SpecOrder(resource.kind)) |->
                           PyStr(SpecOrder(resource.kind)[i])],
                       LAMBDA k : k \in DOMAIN resource.config.spec))

\* {k: link(v) for k, v in spec.items()} from position i on; linked holds the
\* pairs made so far.
RECURSIVE LinkSpec(_, _, _, _, _)
LinkSpec(g, spec, keys, i, linked) ==
    LET Then(r) == LinkSpec(r.g, spec, keys, i + 1, linked @@ (keys[i] :> r.result))
    IN  IF i > Len(keys) THEN [spec |-> linked, g |-> g]
        ELSE Then(LinkValue(g, spec[keys[i]]))

\* Every field of the payload is kept, whatever its value.
KeepAll(spec) == spec

\* {x: y for x, y in compiled_config["spec"].items() if y}
DropFalsy(spec) == [k \in {x \in DOMAIN spec : Truthy(spec[x])} |-> spec[k]]

\* Resource.link: "ok" with the materialized document and the new g, or the
\* exception Remote.link raised.
ResourceLink(g, resource) ==
    LET Build(ns, linked) ==
            IF ns.status # "ok" THEN [status |-> ns.status, g |-> g]
            ELSE [status |-> "ok",
                  g |-> linked.g,
                  config |-> [apiVersion |-> resource.config.apiVersion,
                              kind |-> resource.config.kind,
                              metadata |-> [name |-> resource.config.metadata.name,
                                            namespace |-> NsStr(ns.result)],
                              spec |-> DropFalsy(linked.spec)]]
    IN  Build(LinkNamespace(g, resource),
              LinkSpec(g, resource.config.spec, SpecKeys(resource), 1, <<>>))

(***************************************************************************)
(* Files. A path is folder/kind/name.yaml; a (filepath, i, config) entry   *)
(* of read_resource_configs_dir is Entry(path, i, config).                 *)
(***************************************************************************)
Path(folder, kind, name) == [folder |-> folder, kind |-> kind, name |-> name]

Entry(path, i, config) == [path |-> path, index |-> i, config |-> config]

File(path, configs) == [path |-> path, configs |-> configs]

\* read_resource_configs_file: every document of a file with its ordinal.
read_resource_configs_file(file) ==
    [i \in 1..Len(file.configs) |-> Entry(file.path, i, file.configs[i])]

RECURSIVE Chain(_)
Chain(lists) == IF lists = <<>> THEN <<>> ELSE Head(lists) \o Chain(Tail(lists))

\* read_resource_configs_dir: the files below a root, in walk order.
read_resource_configs_dir(files, folder) ==
    Chain([i \in 1..Len(files) |->
              IF files[i].path.folder = folder
              THEN read_resource_configs_file(files[i]) ELSE <<>>])

\* sorted(list, key): Python's sort is stable.
RECURSIVE sorted(_)
sorted(entries) ==
    LET First(least) ==
            <<entries[least]>>
            \o sorted([k \in 1..(Len(entries) - 1) |->
                          IF k < least THEN entries[k] ELSE entries[k + 1]])
    IN  IF entries = <<>> THEN <<>>
        ELSE First(CHOOSE i \in 1..Len(entries) :
                      /\ \A j \in 1..Len(entries) :
                            config_priority(entries[i].config)
                                <= config_priority(entries[j].config)
                      /\ \A j \in 1..(i - 1) :
                            config_priority(entries[j].config)
                                # config_priority(entries[i].config))

PathExists(files, path) == \E i \in 1..Len(files) : files[i].path = path

\* prefix + (suffix or "") + ".yaml": the unsuffixed name when it is free; once
\* suffix is 1 the sum of a str and an int raises TypeError.
create_resource_path(files, folder, config) ==
    IF ~PathExists(files, Path(folder, config.kind, config.metadata.name))
    THEN [status |-> "ok", result |-> Path(folder, config.kind, config.metadata.name)]
    ELSE Raised("TypeError")

(***************************************************************************)
(* is_itl_resource, expand_keys and check_duplicates.                      *)
(***************************************************************************)
is_itl_resource(config) ==
    /\ config.apiVersion = "thatone.ai/v1"
    /\ config.kind \in DOMAIN CONFIG_PRIORITY

\* `else: raise ValueError(f"Unknown config type {config_type}")`: a bundle
\* with a section that is none of the six.
UnknownConfigType(config) ==
    /\ config.kind = "ResourceDefs"
    /\ ~(DOMAIN config.spec \subseteq {Sections[s] : s \in 1..Len(Sections)})

\* The keys expand_keys yields for the members of the six sections.
expand_keys(config) ==
    LET Keys(members) ==
            [i \in 1..Len(members) |->
                ResourceReference(members[i].kind, members[i].config.name)]
    IN  IF config.kind # "ResourceDefs"
        THEN << ResourceReference(config.kind, config.metadata.name) >>
        ELSE Keys(BundleMembers(config.spec, 1))

\* How often a list of keys holds key.
Occurrences(keys, key) == Cardinality({k \in 1..Len(keys) : keys[k] = key})

\* known_keys[key][filepath]: how often the entries from i on declare key in
\* filepath.
RECURSIVE known_keys(_, _, _, _)
known_keys(configs, key, filepath, i) ==
    IF i > Len(configs) THEN 0
    ELSE (IF is_itl_resource(configs[i].config) /\ configs[i].path = filepath
          THEN Occurrences(expand_keys(configs[i].config), key) ELSE 0)
         + known_keys(configs, key, filepath, i + 1)

Range(seq) == {seq[i] : i \in 1..Len(seq)}

DeclaredKeys(configs) ==
    UNION {Range(expand_keys(configs[i].config))
              : i \in {j \in 1..Len(configs) : is_itl_resource(configs[j].config)}}

\* sum(v.values()) for a key, over the file paths ps.
RECURSIVE Total(_, _, _)
Total(configs, key, ps) ==
    LET Add(q) == known_keys(configs, key, q, 1) + Total(configs, key, ps \ {q})
    IN  IF ps = {} THEN 0 ELSE Add(CHOOSE x \in ps : TRUE)

DuplicateKeys(configs) ==
    {key \in DeclaredKeys(configs) :
        Total(configs, key, {configs[i].path : i \in 1..Len(configs)}) > 1}

\* What check_duplicates prints: every key whose counts sum to more than one,
\* with the files that count it. Nothing is printed when expand_keys raised,
\* which ends the first loop.
Duplicates(configs) ==
    IF \E i \in 1..Len(configs) :
          is_itl_resource(configs[i].config) /\ UnknownConfigType(configs[i].config)
    THEN {}
    ELSE {[key |-> key,
           files |-> {q \in {configs[i].path : i \in 1..Len(configs)} :
                         known_keys(configs, key, q, 1) > 0}]
             : key \in DuplicateKeys(configs)}

\* TRUE when check_duplicates raises ValueError.
check_duplicates(configs) ==
    \/ \E i \in 1..Len(configs) :
          is_itl_resource(configs[i].config) /\ UnknownConfigType(configs[i].config)
    \/ DuplicateKeys(configs) # {}

(***************************************************************************)
(* map_config_locations, compile_configs and link_resources.               *)
(***************************************************************************)
RECURSIVE Register(_, _, _)
Register(ids, registered, i) ==
    IF i > Len(registered) THEN ids
    ELSE Register((registered[i].id :> registered[i].reference) @@ ids, registered, i + 1)

\* The loop of map_config_locations from entry i on.
RECURSIVE map_config_locations(_, _, _, _)
map_config_locations(g, prior_configs, i, error) ==
    LET Place(e, c) ==
            IF ~is_itl_resource(e.config) \/ e.config.kind = "ResourceDefs"
            THEN map_config_locations(g, prior_configs, i + 1, error)
            ELSE IF c.status # "ok"
            THEN map_config_locations(g, prior_configs, i + 1, TRUE)
            ELSE IF ExistingIndex(g, reference(c.resources[1])) > 0
            THEN map_config_locations(
                     [g EXCEPT !.id_to_reference = Register(@, c.registered, 1)],
                     prior_configs, i + 1, TRUE)
            ELSE map_config_locations(
                     [g EXCEPT !.id_to_reference = Register(@, c.registered, 1),
                               !.existing_resources =
                                   Append(@, LocatedResource(e.path, e.index,
                                                             c.resources[1]))],
                     prior_configs, i + 1, error)
    IN  IF i > Len(prior_configs) THEN [error |-> error, g |-> g]
        ELSE Place(prior_configs[i], compile_config(prior_configs[i].config))

\* compiled_resources[key] = resource: a new key goes last, a key the dict
\* holds keeps its position.
SetCompiled(compiled, resource) ==
    IF \E k \in 1..Len(compiled) : reference(compiled[k]) = reference(resource)
    THEN [k \in 1..Len(compiled) |->
             IF reference(compiled[k]) = reference(resource) THEN resource
             ELSE compiled[k]]
    ELSE Append(compiled, resource)

\* for resource in generated_resources: skip a key in already_compiled, else
\* add it there and store the resource. The result is both collections.
RECURSIVE AddCompiled(_, _, _, _)
AddCompiled(compiled, already_compiled, resources, i) ==
    IF i > Len(resources)
    THEN [compiled |-> compiled, already_compiled |-> already_compiled]
    ELSE IF reference(resources[i]) \in already_compiled
    THEN AddCompiled(compiled, already_compiled, resources, i + 1)
    ELSE AddCompiled(SetCompiled(compiled, resources[i]),
                     already_compiled \cup {reference(resources[i])}, resources, i + 1)

\* The loop ends at the first document that fails.
RECURSIVE StopAtFirst(_, _, _, _, _)
StopAtFirst(g, configs, i, error, already_compiled) ==
    LET Store(c, added) ==
            StopAtFirst(
                [g EXCEPT !.id_to_reference = Register(@, c.registered, 1),
                          !.compiled_resources = added.compiled],
                configs, i + 1, error, added.already_compiled)
        Add(c) ==
            IF c.status # "ok" THEN [error |-> TRUE, g |-> g]
            ELSE Store(c, AddCompiled(g.compiled_resources, already_compiled,
                                      c.resources, 1))
    IN  IF i > Len(configs) THEN [error |-> error, g |-> g]
        ELSE Add(compile_config(configs[i].config))

\* The loop of compile_configs from entry i on.
RECURSIVE compile_configs(_, _, _, _, _)
compile_configs(g, configs, i, error, already_compiled) ==
    LET Store(c, added) ==
            compile_configs(
                [g EXCEPT !.id_to_reference = Register(@, c.registered, 1),
                          !.compiled_resources = added.compiled],
                configs, i + 1, error, added.already_compiled)
        Add(c) ==
            IF c.status # "ok"
            THEN compile_configs(g, configs, i + 1, TRUE, already_compiled)
            ELSE Store(c, AddCompiled(g.compiled_resources, already_compiled,
                                      c.resources, 1))
    IN  IF i > Len(configs) THEN [error |-> error, g |-> g]
        ELSE Add(compile_config(configs[i].config))

\* updated_configs[filepath]: the documents of a file, [] when it has none.
FileIndex(files, path) ==
    IF \E i \in 1..Len(files) : files[i].path = path
    THEN CHOOSE i \in 1..Len(files) : files[i].path = path
    ELSE 0

\* updated_configs[filepath].append(config) on a defaultdict(list)
AppendConfig(files, path, config) ==
    LET At(i) == IF i = 0 THEN Append(files, File(path, <<config>>))
                 ELSE [files EXCEPT ![i].configs = Append(@, config)]
    IN  At(FileIndex(files, path))

\* The first loop of link_resources: the prior documents grouped by file.
RECURSIVE GroupByFile(_, _, _)
GroupByFile(files, prior_configs, i) ==
    IF i > Len(prior_configs) THEN files
    ELSE GroupByFile(AppendConfig(files, prior_configs[i].path, prior_configs[i].config),
                     prior_configs, i + 1)

\* Every new document goes below the resources root.
InResources(ref) == "resources"

ResourceFolder(ref) == IF ref.kind = "ApiKey" THEN "secrets" ELSE "resources"

\* updated_yaml_files.add(path), in the order the paths were added.
Touch(touched, path) ==
    IF \E k \in 1..Len(touched) : touched[k] = path THEN touched
    ELSE Append(touched, path)

\* The document goes to the end of the file instead of its place.
AppendAt(updated, location, config) == AppendConfig(updated, location.path, config)

\* The document replaces the last one of the file instead of its own.
ReplaceLast(updated, location, config) ==
    LET At(f) == [updated EXCEPT ![f].configs[Len(updated[f].configs)] = config]
    IN  At(FileIndex(updated, location.path))

\* updated_configs[location.path][location.index] = config
Replace(updated, location, config) ==
    [updated EXCEPT ![FileIndex(updated, location.path)].configs[location.index] = config]

\* The second loop of link_resources from compiled resource i on. updated is
\* updated_configs, touched is updated_yaml_files. The status is "ok" with
\* error set or not, or the exception that left the loop.
RECURSIVE LinkLoop(_, _, _, _, _, _)
LinkLoop(g, files, updated, touched, i, error) ==
    LET Body(target, at, linked, newPath) ==
            IF at > 0
            THEN IF linked.status # "ok" THEN [status |-> linked.status, g |-> g]
                 ELSE LinkLoop(linked.g, files,
                               Replace(updated, g.existing_resources[at], linked.config),
                               Touch(touched, g.existing_resources[at].path), i + 1, error)
            ELSE IF newPath.status # "ok" THEN [status |-> newPath.status, g |-> g]
            ELSE IF linked.status = "ValueError"
            THEN LinkLoop(g, files, updated, touched, i + 1, TRUE)
            ELSE IF linked.status # "ok" THEN [status |-> linked.status, g |-> g]
            ELSE LinkLoop(linked.g, files,
                          AppendConfig(updated, newPath.result, linked.config),
                          Touch(touched, newPath.result), i + 1, error)
    IN  IF i > Len(g.compiled_resources)
        THEN [status |-> "ok", error |-> error, g |-> g, updated |-> updated,
              touched |-> touched]
        ELSE Body(g.compiled_resources[i],
                  ExistingIndex(g, reference(g.compiled_resources[i])),
                  ResourceLink(g, g.compiled_resources[i]),
                  create_resource_path(files,
                                       ResourceFolder(reference(g.compiled_resources[i])),
                                       g.compiled_resources[i].config))

\* link_resources: "ok" with the files to write, ValueError, or the exception
\* that escaped.
link_resources(g, files, prior_configs) ==
    LET Result(r) ==
            IF r.status # "ok" THEN r
            ELSE IF r.error THEN [status |-> "ValueError", g |-> r.g]
            ELSE [status |-> "ok", g |-> r.g,
                  result |-> [k \in 1..Len(r.touched) |->
                                 r.updated[FileIndex(r.updated, r.touched[k])]]]
    IN  Result(LinkLoop(g, files, GroupByFile(<<>>, prior_configs, 1), <<>>, 1, FALSE))

(***************************************************************************)
(* The authorization resolver: apikeys_for_resource, get_resources_by_type,*)
(* apikeys_for_client and get_client_parent_id.                            *)
(***************************************************************************)
\* str(None), as an identifier no document carries.
NoneWord == -1

\* str(value): a placeholder links, None is the word "None".
StrOf(g, value) ==
    LET Of(r) == [result |-> r.result.id, g |-> r.g]
    IN  IF value.type = "NoneType" THEN [result |-> NoneWord, g |-> g]
        ELSE Of(LinkValue(g, value))

\* The objects get_resources_by_type(kind) yields: the compiled ones, then the
\* existing ones, each named by its table and position.
get_resources_by_type(g, kind) ==
    SelectSeq([i \in 1..Len(g.compiled_resources) |->
                  [table |-> "compiled", index |-> i,
                   resource |-> g.compiled_resources[i]]],
              LAMBDA o : o.resource.kind = kind)
    \o SelectSeq([i \in 1..Len(g.existing_resources) |->
                     [table |-> "existing", index |-> i,
                      resource |-> g.existing_resources[i].resource]],
                 LAMBDA o : o.resource.kind = kind)

get_client_parent_id(g, client_id) ==
    LET Id(id) == [status |-> "ok", result |-> ResourceId("Client", id.result),
                   g |-> id.g]
        Of(found) ==
            IF found.status # "ok" THEN [status |-> "None", g |-> g]
            ELSE IF PyStr("parentId") \in DOMAIN found.resource.config.spec
            THEN Id(StrOf(g, found.resource.config.spec[PyStr("parentId")]))
            ELSE [status |-> "None", g |-> g]
    IN  IF client_id \notin DOMAIN g.id_to_reference THEN [status |-> "None", g |-> g]
        ELSE Of(get_resource_by_reference(g, g.id_to_reference[client_id]))

\* The first loop of apikeys_for_client from object i on: the keys it yields
\* for client_id, each with the object it belongs to and apikey.key.
RECURSIVE MatchingKeys(_, _, _, _, _)
MatchingKeys(g, objects, client_id, i, found) ==
    LET Yield(apikey, key) ==
            MatchingKeys(key.g, objects, client_id, i + 1,
                         Append(found, [table |-> apikey.table, index |-> apikey.index,
                                        reference |-> reference(apikey.resource),
                                        key |-> key.result]))
        Test(apikey, owner) ==
            IF owner.result # client_id.id
            THEN MatchingKeys(owner.g, objects, client_id, i + 1, found)
            ELSE Yield(apikey, StrOf(owner.g, apikey.resource.config.spec[PyStr("apiKey")]))
    IN  IF i > Len(objects) THEN [keys |-> found, g |-> g]
        ELSE IF ~objects[i].resource.valid
        THEN MatchingKeys(g, objects, client_id, i + 1, found)
        ELSE Test(objects[i], StrOf(g, objects[i].resource.config.spec[PyStr("clientId")]))

\* The keys of the ancestors come before the keys of the client itself.
RECURSIVE ParentsFirst(_, _, _)
ParentsFirst(g, client_id, visited) ==
    LET Join(own, above) ==
            [keys |-> above.keys \o own.keys, unbounded |-> above.unbounded,
             g |-> above.g]
        Up(own, parent_id) ==
            IF parent_id.status = "None"
            THEN [keys |-> own.keys, unbounded |-> FALSE, g |-> parent_id.g]
            ELSE IF parent_id.result \in visited \cup {client_id}
            THEN [keys |-> own.keys, unbounded |-> TRUE, g |-> parent_id.g]
            ELSE Join(own, ParentsFirst(parent_id.g, parent_id.result,
                                        visited \cup {client_id}))
        Own(own) == Up(own, get_client_parent_id(own.g, client_id))
    IN  Own(MatchingKeys(g, get_resources_by_type(g, "ApiKey"), client_id, 1, <<>>))

\* Everything the generator apikeys_for_client(client_id) yields when every
\* key it yields is rejected, nearest client first. The generator recurses
\* into the parent without a bound: on a chain of parents that returns to a
\* client already visited it never ends, which is unbounded = TRUE.
RECURSIVE apikeys_for_client(_, _, _)
apikeys_for_client(g, client_id, visited) ==
    LET Join(own, above) ==
            [keys |-> own.keys \o above.keys, unbounded |-> above.unbounded,
             g |-> above.g]
        Up(own, parent_id) ==
            IF parent_id.status = "None"
            THEN [keys |-> own.keys, unbounded |-> FALSE, g |-> parent_id.g]
            ELSE IF parent_id.result \in visited \cup {client_id}
            THEN [keys |-> own.keys, unbounded |-> TRUE, g |-> parent_id.g]
            ELSE Join(own, apikeys_for_client(parent_id.g, parent_id.result,
                                              visited \cup {client_id}))
        Own(own) == Up(own, get_client_parent_id(own.g, client_id))
    IN  Own(MatchingKeys(g, get_resources_by_type(g, "ApiKey"), client_id, 1, <<>>))

\* apikeys_for_resource: "ok" with the id of the first Client on the way up,
\* "None" when the chain ends before a Client (the function returns None),
\* KeyError when a parent id is unknown.
RECURSIVE apikeys_for_resource(_, _)
apikeys_for_resource(g, client_resource) ==
    LET Id(id) == [status |-> "ok", result |-> ResourceId("Client", id.result),
                   g |-> id.g]
        Climb(up) ==
            IF up.status = "KeyError" THEN [status |-> "KeyError", g |-> g]
            ELSE IF up.status = "None" THEN [status |-> "None", g |-> g]
            ELSE apikeys_for_resource(g, up.resource)
    IN  IF client_resource.kind = "Client"
        THEN Id(StrOf(g, client_resource.config.spec[PyStr("clientId")]))
        ELSE Climb(parent(g, client_resource))

(***************************************************************************)
(* put_with_key, Resource.apply, ApiKey.attach_to_client and ApiKey.apply. *)
(* The remote service answers each request with any of StatusCodes, so an  *)
(* apply has a set of outcomes: the globals it leaves, the requests it     *)
(* sent and what it returned ("True", "False") or the exception it raised. *)
(***************************************************************************)
StatusCodes == {200, 401, 500}

\* put_with_key: `if key:` sends no apikey parameter for an empty key, which
\* is apikey = 0 here.
put_with_key(ref, url, kind, json, key, status_code) ==
    [reference |-> ref, url |-> url, kind |-> kind, json |-> json, apikey |-> key,
     status_code |-> status_code]

Outcome(g, sent, result) == [g |-> g, sent |-> sent, result |-> result]

\* The key that ended the loop is marked too.
InvalidateUsed(g, keys, n) ==
    LET Mark(k, rest) ==
            IF k.table = "compiled"
            THEN [rest EXCEPT !.compiled_resources[k.index].valid = FALSE]
            ELSE [rest EXCEPT !.existing_resources[k.index].resource.valid = FALSE]
        RECURSIVE All(_)
        All(m) == IF m = 0 THEN g ELSE Mark(keys[m], All(m - 1))
    IN  All(IF n < Len(keys) THEN n + 1 ELSE n)

\* apikey.valid = False on the first n of the keys.
RECURSIVE Invalidate(_, _, _)
Invalidate(g, keys, n) ==
    LET Mark(k, rest) ==
            IF k.table = "compiled"
            THEN [rest EXCEPT !.compiled_resources[k.index].valid = FALSE]
            ELSE [rest EXCEPT !.existing_resources[k.index].resource.valid = FALSE]
    IN  IF n = 0 THEN g ELSE Mark(keys[n], Invalidate(g, keys, n - 1))

AlwaysApplied(status_code) == TRUE

\* The end of Resource.apply: True only for a 200.
Applied(status_code) == status_code = 200

\* The for loop of Resource.apply over the keys the generator yields, its else
\* branch and the return value.
ResourceApplyLoop(self, url, compiled_config, found) ==
    LET Put(key, status_code) ==
            put_with_key(reference(self), url.result, self.kind,
                         compiled_config.config.spec, key, status_code)
        \* the first n keys were answered 401
        Rejections(n) == [i \in 1..n |-> Put(found.keys[i].key, 401)]
        Result(status_code) == IF Applied(status_code) THEN "True" ELSE "False"
    IN  \* key n is the first that is not answered 401: break
        {Outcome(Invalidate(found.g, found.keys, n - 1),
                 Append(Rejections(n - 1), Put(found.keys[n].key, status_code)),
                 Result(status_code))
            : n \in 1..Len(found.keys), status_code \in StatusCodes \ {401}}
        \cup
        \* every key was answered 401: the else branch of the for loop
        (IF found.unbounded
         THEN {Outcome(Invalidate(found.g, found.keys, Len(found.keys)),
                       Rejections(Len(found.keys)), "RecursionError")}
         ELSE {Outcome(Invalidate(found.g, found.keys, Len(found.keys)),
                       Append(Rejections(Len(found.keys)), Put(0, status_code)),
                       Result(status_code))
                  : status_code \in StatusCodes})

ResourceApply(g, self) ==
    LET Linked(api_keys, url, compiled_config) ==
            IF url.status # "ok" THEN {Outcome(api_keys.g, <<>>, url.status)}
            ELSE IF api_keys.status = "None"
            THEN {Outcome(compiled_config.g, <<>>, "TypeError")}
            ELSE ResourceApplyLoop(self, url, compiled_config,
                                   apikeys_for_client(compiled_config.g,
                                                      api_keys.result, {}))
        Keys(api_keys) ==
            IF api_keys.status = "KeyError" THEN {Outcome(g, <<>>, "KeyError")}
            ELSE Linked(api_keys, LinkNamespace(api_keys.g, self),
                        ResourceLink(api_keys.g, self))
    IN  Keys(apikeys_for_resource(g, self))

\* attach_to_client returns True whatever the response is.
attach_to_client(status_code) == TRUE

\* The for loop of ApiKey.apply and the attempt with the key's own value.
ApiKeyApplyLoop(self, found, config, own) ==
    LET Put(key, status_code) ==
            put_with_key(reference(self), config.config.metadata.namespace.remote,
                         "ApiKey", config.config.spec, key, status_code)
        \* the first n keys were tried and attach_to_client returned False
        Failed(n, codes) == [i \in 1..n |-> Put(found.keys[i].key, codes[i])]
        Failing == {c \in StatusCodes : ~attach_to_client(c)}
        Passing == {c \in StatusCodes : attach_to_client(c)}
    IN  \* key n is the first whose attach returns True
        UNION {{Outcome(Invalidate(found.g, found.keys, n - 1),
                        Append(Failed(n - 1, codes), Put(found.keys[n].key, status_code)),
                        "True")
                   : status_code \in Passing, codes \in [1..(n - 1) -> Failing]}
                  : n \in 1..Len(found.keys)}
        \cup
        \* no attach returned True: the key's own value is tried
        (IF found.unbounded
         THEN {Outcome(Invalidate(found.g, found.keys, Len(found.keys)),
                       Failed(Len(found.keys), codes), "RecursionError")
                  : codes \in [1..Len(found.keys) -> Failing]}
         ELSE {Outcome(Invalidate(found.g, found.keys, Len(found.keys)),
                       Append(Failed(Len(found.keys), codes), Put(own.result, status_code)),
                       "False")
                  : status_code \in StatusCodes,
                    codes \in [1..Len(found.keys) -> Failing]})

ApiKeyApply(g, self) ==
    LET Attach(found, config) ==
            IF config.status # "ok" THEN {Outcome(found.g, <<>>, config.status)}
            ELSE ApiKeyApplyLoop(self, found, config,
                                 StrOf(config.g, self.config.spec[PyStr("apiKey")]))
        Keys(found) == Attach(found, ResourceLink(found.g, self))
        Client(resource_id) ==
            Keys(apikeys_for_client(resource_id.g,
                                    ResourceId("Client", resource_id.result), {}))
    IN  Client(StrOf(g, self.config.spec[PyStr("clientId")]))

\* resource.apply() dispatches on the class of the resource.
Apply(g, resource) ==
    IF resource.kind = "ApiKey" THEN ApiKeyApply(g, resource) ELSE ResourceApply(g, resource)

(***************************************************************************)
(* The inputs of a run. The desired set is one bundle document made of     *)
(* members of BundlePool plus documents of DocumentPool, each in a file of *)
(* its own; the persisted state is documents of DocumentPool in the files  *)
(* PersistedFiles lays them out in. A Cluster is constructed, linked and   *)
(* pushed by the code a Loop goes through (an owner, an id of its own),    *)
(* so the pool of members has a Loop and no Cluster. Scenarios are further *)
(* desired sets, and Hierarchy, Corrupted, TwoLevels, KeyOfParent and      *)
(* SharedFile further storage roots, next to the ones the bounds give.     *)
(***************************************************************************)
BundlePool ==
    [apikeys |-> << [name |-> "k", clientName |-> "a"],
                    [name |-> "j", clientName |-> "a"] >>,
     clients |-> << [name |-> "a", remote |-> "r"],
                    [name |-> "a", parentName |-> "b"],
                    [name |-> "b", parentName |-> "a"],
                    [name |-> "b", remote |-> "r", parentName |-> "c"] >>,
     groups |-> << [name |-> "g", owner |-> "a"] >>,
     loops |-> << [name |-> "l", owner |-> "a"] >>,
     streams |-> << [name |-> "s", loop |-> "l"] >>]

\* A member of the pool is named by its section and its position there.
BundleChoices ==
    UNION {{[section |-> section, index |-> i] : i \in 1..Len(BundlePool[section])}
              : section \in DOMAIN BundlePool}

\* The bundle document that declares the chosen members, in pool order.
ResourceDefs(chosen) ==
    LET Picked(section) ==
            {i \in 1..Len(BundlePool[section]) :
                [section |-> section, index |-> i] \in chosen}
        RECURSIVE Pick(_, _)
        Pick(section, i) ==
            IF i > Len(BundlePool[section]) THEN <<>>
            ELSE (IF i \in Picked(section) THEN <<BundlePool[section][i]>> ELSE <<>>)
                 \o Pick(section, i + 1)
    IN  [apiVersion |-> "thatone.ai/v1", kind |-> "ResourceDefs",
         metadata |-> [name |-> "defs"],
         spec |-> [section \in {x \in DOMAIN BundlePool : Picked(x) # {}} |->
                      Pick(section, 1)]]

Document(kind, name, spec) ==
    [apiVersion |-> "thatone.ai/v1", kind |-> kind,
     metadata |-> [name |-> name, namespace |-> NsStr("r")], spec |-> spec]

DocumentPool ==
    << Document("Loop", "l", (PyStr("ownerId") :> PyId(1)) @@ (PyStr("loopId") :> PyId(7))),
       Document("Client", "a", (PyStr("clientId") :> PyId(1)) @@ (PyStr("parentId") :> PyId(2))),
       Document("Client", "b", (PyStr("clientId") :> PyId(2)) @@ (PyStr("parentId") :> PyId(3))),
       Document("Client", "c", (PyStr("clientId") :> PyId(3))),
       Document("ApiKey", "k", (PyStr("clientId") :> PyId(2)) @@ (PyStr("apiKey") :> PyId(9))),
       \* a Group without the required ownerId
       Document("Group", "g", (PyStr("groupId") :> PyId(5))) >>


\* The files named on the command line: the chosen documents in pool order,
\* the bundle last.
DesiredFiles(chosen, documents) ==
    LET docs == SelectSeq(DocumentPool, LAMBDA d : d \in documents)
    IN  [i \in 1..Len(docs) |->
            File(Path("desired", docs[i].kind, docs[i].metadata.name), <<docs[i]>>)]
        \o (IF chosen = {} THEN <<>>
            ELSE << File(Path("desired", "ResourceDefs", "defs"),
                         <<ResourceDefs(chosen)>>) >>)

Bundle(spec) ==
    [apiVersion |-> "thatone.ai/v1", kind |-> "ResourceDefs",
     metadata |-> [name |-> "defs"], spec |-> spec]

DesiredFile(config) == File(Path("desired", config.kind, config.metadata.name), <<config>>)

\* clients: [{name: a}] and apikeys: [{name: k, clientName: a}]: a client
\* without remote and without parentName, and a key for it.
EndToEnd ==
    << DesiredFile(Bundle([apikeys |-> << [name |-> "k", clientName |-> "a"] >>,
                           clients |-> << [name |-> "a"] >>])) >>

\* A bundle whose group has a key no Group may have, between members that
\* are valid, and a valid document next to it.
UnknownKey ==
    << DesiredFile(DocumentPool[4]),
       DesiredFile(Bundle([clients |-> << [name |-> "a", remote |-> "r"] >>,
                           groups |-> << [name |-> "g", owner |-> "a", tags |-> "t"] >>,
                           loops |-> << [name |-> "l", owner |-> "a"] >>])) >>

\* A bundle whose stream does not name its loop.
MissingKey ==
    << DesiredFile(Bundle([clients |-> << [name |-> "a", remote |-> "r"] >>,
                           streams |-> << [name |-> "s"] >>])) >>

\* A Client document whose metadata has no namespace.
NoNamespace ==
    << DesiredFile([apiVersion |-> "thatone.ai/v1", kind |-> "Client",
                    metadata |-> [name |-> "c"],
                    spec |-> (PyStr("clientId") :> PyId(3))]) >>

\* A bundle with a section that is none of the six, and ApiKey k declared
\* by the bundle and by a document.
UnknownSection ==
    << DesiredFile(DocumentPool[5]),
       DesiredFile(Bundle([apikeys |-> << [name |-> "k", clientName |-> "a"] >>,
                           widgets |-> << [name |-> "w"] >>])) >>

Scenarios == {EndToEnd, UnknownKey, MissingKey, NoNamespace, UnknownSection}

\* Client b once more, with Client a as its parent.
ClientB == Document("Client", "b", (PyStr("clientId") :> PyId(2)) @@ (PyStr("parentId") :> PyId(1)))

\* A key of Client a.
ApiKeyJ == Document("ApiKey", "j", (PyStr("clientId") :> PyId(1)) @@ (PyStr("apiKey") :> PyId(8)))

StoredPool == DocumentPool \o << ClientB, ApiKeyJ >>

\* Client a with a key of its own and a key of its parent.
TwoLevels == {DocumentPool[2], DocumentPool[5], ApiKeyJ}

\* Clients a and b name each other as parent.
Hierarchy == {DocumentPool[2], ClientB}

\* Client b is stored twice, both times in the file of Client b, and ApiKey k
\* is read after it.
Corrupted == {DocumentPool[3], DocumentPool[5], ClientB}

\* Client b, whose parent is Client c, has the only key.
KeyOfParent == {DocumentPool[3], DocumentPool[5]}

\* Clients b and c, both kept in the file of Client b.
SharedFile == {DocumentPool[3], DocumentPool[4]}

\* The storage roots hold the files their owner keeps there, under any name
\* and with any number of documents: os.walk reads every .yaml file. Here a
\* document is in the file named after it, except Client c, which is kept as
\* the second document of the file of Client b.
StoredName(config) ==
    IF config.kind = "Client" /\ config.metadata.name = "c" THEN "b"
    ELSE config.metadata.name

PersistedFiles(documents) ==
    LET docs == SelectSeq(StoredPool, LAMBDA d : d \in documents)
    IN  GroupByFile(
            <<>>,
            [i \in 1..Len(docs) |->
                Entry(Path(ResourceFolder(ResourceReference(docs[i].kind,
                                                            docs[i].metadata.name)),
                           docs[i].kind, StoredName(docs[i])),
                      i, docs[i])],
            1)

DocumentSet == {DocumentPool[i] : i \in 1..Len(DocumentPool)}

(***************************************************************************)
(* Commander.apply.                                                        *)
(***************************************************************************)
g0 == Globals(compiled_resources, existing_resources, generated_values, id_to_reference,
              urandom, returned)

SetGlobals(g) ==
    /\ compiled_resources' = g.compiled_resources
    /\ existing_resources' = g.existing_resources
    /\ generated_values' = g.generated_values
    /\ id_to_reference' = g.id_to_reference
    /\ urandom' = g.urandom
    /\ returned' = g.returned

\* prior_configs: the resources root, then the secrets root, read fully.
prior_configs ==
    read_resource_configs_dir(disk, "resources") \o read_resource_configs_dir(disk, "secrets")

\* The subsets of S with at most n elements.
AtMost(S, n) == {T \in SUBSET S : Cardinality(T) <= n}

\* The desired sets and the storage roots a run starts from.
DesiredChoices ==
    UNION {{DesiredFiles(chosen, documents)
               : documents \in AtMost(DocumentSet, MaxDesired - Cardinality(chosen))}
              : chosen \in AtMost(BundleChoices, MaxDesired)}
    \cup Scenarios

PersistedChoices ==
    AtMost(DocumentSet, MaxPersisted)
    \cup {Hierarchy, Corrupted, TwoLevels, KeyOfParent, SharedFile}

Init ==
    /\ \E desired \in DesiredChoices :
       \E persisted \in PersistedChoices :
          /\ new_configs =
                 sorted(Chain([i \in 1..Len(desired) |->
                                  read_resource_configs_file(desired[i])]))
          /\ disk = PersistedFiles(persisted)
    /\ existing_resources = <<>>
    /\ compiled_resources = <<>>
    /\ generated_values = <<>>
    /\ id_to_reference = <<>>
    /\ urandom = 0
    /\ returned = <<>>
    /\ pc = "check_duplicates"
    /\ push_index = 0
    /\ requests = <<>>
    /\ pushed = <<>>
    /\ updated_configs = <<>>
    /\ written = <<>>
    /\ stage_error = ""
    /\ exit_status = 0
    /\ run = 1

\* The except clause without its return: the run goes on to the writes.
AbortContinues(stage) ==
    /\ pc' = "save"
    /\ stage_error' = stage
    /\ exit_status' = 0

\* `except ValueError: print("Fix the errors and try again."); return`
Abort(stage) ==
    /\ pc' = "done"
    /\ stage_error' = stage
    /\ exit_status' = 0

\* An exception that nothing catches ends the process with a traceback.
Crash(stage) ==
    /\ pc' = "done"
    /\ stage_error' = stage
    /\ exit_status' = 1

CheckDuplicates ==
    /\ pc = "check_duplicates"
    /\ IF check_duplicates(new_configs) \/ check_duplicates(prior_configs)
       THEN Abort("check_duplicates")
       ELSE pc' = "map_config_locations" /\ UNCHANGED <<stage_error, exit_status>>
    /\ UNCHANGED <<new_configs, disk, existing_resources, compiled_resources,
                   generated_values, id_to_reference, urandom, returned, push_index, requests,
                   pushed, updated_configs, written, run>>

MapConfigLocations ==
    /\ pc = "map_config_locations"
    /\ LET Done(r) ==
               /\ SetGlobals(r.g)
               /\ IF r.error THEN Abort("map_config_locations")
                  ELSE pc' = "compile_configs" /\ UNCHANGED <<stage_error, exit_status>>
       IN  Done(map_config_locations(g0, prior_configs, 1, FALSE))
    /\ UNCHANGED <<new_configs, disk, push_index, requests, pushed, updated_configs,
                   written, run>>

CompileConfigs ==
    /\ pc = "compile_configs"
    /\ LET Done(r) ==
               /\ SetGlobals(r.g)
               /\ IF r.error THEN Abort("compile_configs")
                  ELSE pc' = "link_resources" /\ UNCHANGED <<stage_error, exit_status>>
       IN  Done(compile_configs(g0, new_configs, 1, FALSE, {}))
    /\ UNCHANGED <<new_configs, disk, push_index, requests, pushed, updated_configs,
                   written, run>>

LinkResources ==
    /\ pc = "link_resources"
    /\ LET Done(r) ==
               /\ SetGlobals(r.g)
               /\ CASE r.status = "ok" ->
                         /\ pc' = "save"
                         /\ updated_configs' = r.result
                         /\ UNCHANGED <<stage_error, exit_status>>
                    [] r.status = "ValueError" ->
                         Abort("link_resources") /\ UNCHANGED updated_configs
                    [] r.status = "hang" ->
                         /\ pc' = "hang"
                         /\ stage_error' = "link_resources"
                         /\ UNCHANGED <<exit_status, updated_configs>>
                    [] OTHER -> Crash("link_resources") /\ UNCHANGED updated_configs
       IN  Done(link_resources(g0, disk, prior_configs))
    /\ UNCHANGED <<new_configs, disk, push_index, requests, pushed, written, run>>

\* The roots are emptied before the files are written.
WriteOnly(files, updated, i) == updated

\* open(filepath, "w") and yaml.dump_all(configs): the file holds exactly configs.
RECURSIVE WriteFiles(_, _, _)
WriteFiles(files, updated, i) ==
    IF i > Len(updated) THEN files
    ELSE WriteFiles(
             IF FileIndex(files, updated[i].path) = 0 THEN Append(files, updated[i])
             ELSE [files EXCEPT ![FileIndex(files, updated[i].path)] = updated[i]],
             updated, i + 1)

SaveFiles ==
    /\ pc = "save"
    /\ disk' = WriteFiles(disk, updated_configs, 1)
    /\ written' = [i \in 1..Len(updated_configs) |-> updated_configs[i].path]
    /\ pc' = "push"
    /\ push_index' = 1
    /\ UNCHANGED <<new_configs, existing_resources, compiled_resources, generated_values,
                   id_to_reference, urandom, returned, requests, pushed, updated_configs,
                   stage_error, exit_status, run>>

\* One round of the push loop: resource.apply(), and `raise` for an exception.
ApplyResource ==
    /\ pc = "push"
    /\ push_index <= Len(compiled_resources)
    /\ \E o \in Apply(g0, compiled_resources[push_index]) :
          /\ SetGlobals(o.g)
          /\ requests' = requests \o o.sent
          /\ pushed' = Append(pushed, [reference |-> reference(compiled_resources[push_index]),
                                       result |-> o.result])
          /\ IF o.result \in {"True", "False"}
             THEN /\ push_index' = push_index + 1
                  /\ UNCHANGED <<pc, stage_error, exit_status>>
             ELSE Crash("push") /\ UNCHANGED push_index
    /\ UNCHANGED <<new_configs, disk, updated_configs, written, run>>

\* The push loop is over and apply returns None.
Return ==
    /\ pc = "push"
    /\ push_index > Len(compiled_resources)
    /\ pc' = "done"
    /\ exit_status' = 0
    /\ UNCHANGED <<new_configs, disk, existing_resources, compiled_resources,
                   generated_values, id_to_reference, urandom, returned, push_index, requests,
                   pushed, updated_configs, written, stage_error, run>>

\* The user applies the same files again: a new process, whose globals start
\* empty, against the storage the earlier run left.
Rerun ==
    /\ pc = "done"
    /\ run < MaxRuns
    /\ run' = run + 1
    /\ existing_resources' = <<>>
    /\ compiled_resources' = <<>>
    /\ generated_values' = <<>>
    /\ id_to_reference' = <<>>
    /\ pc' = "check_duplicates"
    /\ push_index' = 0
    /\ requests' = <<>>
    /\ pushed' = <<>>
    /\ updated_configs' = <<>>
    /\ written' = <<>>
    /\ stage_error' = ""
    /\ exit_status' = 0
    /\ returned' = <<>>
    /\ UNCHANGED <<new_configs, disk, urandom>>

Next ==
    \/ CheckDuplicates
    \/ MapConfigLocations
    \/ CompileConfigs
    \/ LinkResources
    \/ SaveFiles
    \/ ApplyResource
    \/ Return
    \/ Rerun

Spec == Init /\ [][Next]_vars

(***************************************************************************)
(* The deferred-value graph on its own: documents are compiled, persisted  *)
(* documents are located and placeholders are linked, one at a time and in *)
(* any order, as the functions allow when they are called directly.        *)
(***************************************************************************)
MaxResolve == 4

\* The documents and the placeholders the calls are made with: a Client and an
\* ApiKey, each as a standalone document and as a member of a bundle.
ResolveDocuments ==
    {DocumentPool[2], DocumentPool[5],
     ResourceDefs({[section |-> "clients", index |-> 1]}),
     ResourceDefs({[section |-> "apikeys", index |-> 1]})}

Placeholders == {ClientId("a"), ApiKeyId("k"), DeferredId("ApiKey", "k", "apiKey")}

InitResolve ==
    /\ new_configs = <<>>
    /\ disk = <<>>
    /\ existing_resources = <<>>
    /\ compiled_resources = <<>>
    /\ generated_values = <<>>
    /\ id_to_reference = <<>>
    /\ urandom = 0
    /\ returned = <<>>
    /\ pc = "resolve"
    /\ push_index = 0
    /\ requests = <<>>
    /\ pushed = <<>>
    /\ updated_configs = <<>>
    /\ written = <<>>
    /\ stage_error = ""
    /\ exit_status = 0
    /\ run = 1

\* compile_configs([(path, 1, config)])
RegisterCompiled ==
    /\ pc = "resolve"
    /\ Len(compiled_resources) < MaxDesired
    /\ \E config \in ResolveDocuments :
          LET Done(r) == SetGlobals(r.g)
          IN  Done(compile_configs(
                       g0, <<Entry(Path("desired", config.kind, config.metadata.name),
                                   1, config)>>, 1, FALSE, {}))
    /\ UNCHANGED <<new_configs, disk, pc, push_index, requests, pushed, updated_configs,
                   written, stage_error, exit_status, run>>

\* map_config_locations([(path, 1, config)])
RegisterPersisted ==
    /\ pc = "resolve"
    /\ Len(existing_resources) < MaxPersisted
    /\ \E config \in ResolveDocuments :
          LET Done(r) == SetGlobals(r.g)
          IN  Done(map_config_locations(
                       g0, <<Entry(Path("resources", config.kind, config.metadata.name),
                                   1, config)>>, 1, FALSE))
    /\ UNCHANGED <<new_configs, disk, pc, push_index, requests, pushed, updated_configs,
                   written, stage_error, exit_status, run>>

\* value.link() for a placeholder
Resolve ==
    /\ pc = "resolve"
    /\ Len(returned) < MaxResolve
    /\ \E value \in Placeholders :
          LET Done(r) == SetGlobals(r.g) IN Done(LinkValue(g0, value))
    /\ UNCHANGED <<new_configs, disk, pc, push_index, requests, pushed, updated_configs,
                   written, stage_error, exit_status, run>>

NextResolve ==
    \/ RegisterCompiled
    \/ RegisterPersisted
    \/ Resolve

SpecResolve == InitResolve /\ [][NextResolve]_vars

(***************************************************************************)
(* Identifier resolution, C1 to C3.                                        *)
(***************************************************************************)
\* The literal a resource's payload carries for the field of a ConfigKey,
\* None when it carries none or a placeholder.
LiteralOf(spec, configKey) ==
    LET Of(value) == IF Truthy(value) /\ ~IsDeferredValue(value) THEN value ELSE None
    IN  Of(DictGet(spec, PyStr(configKey.key)))

\* C1: identifier stability across runs. In a run that follows an earlier
\* one, every value get_generated_id returns for a ConfigKey whose persisted
\* resource carries a literal for that field is that literal, and no fresh
\* identifier is stored for such a ConfigKey.
C1_IdentifierStability ==
    run > 1 =>
        /\ \A i \in 1..Len(returned) :
              Truthy(LiteralOf(ExistingSpec(g0, returned[i].configKey.reference),
                               returned[i].configKey))
              => returned[i].result
                     = LiteralOf(ExistingSpec(g0, returned[i].configKey.reference),
                                 returned[i].configKey).id
        /\ \A configKey \in DOMAIN generated_values :
              ~Truthy(LiteralOf(ExistingSpec(g0, configKey.reference), configKey))

\* C2: within one run every call of get_generated_id for the same ConfigKey
\* returns the same literal, whatever was compiled, located or resolved in
\* between, and the value generated_values holds for a ConfigKey is the one
\* that was returned when it was stored.
C2_Memoized ==
    \A i \in 1..Len(returned) :
        /\ \A j \in 1..Len(returned) :
              returned[i].configKey = returned[j].configKey
              => returned[i].result = returned[j].result
        /\ returned[i].configKey \in DOMAIN generated_values
              => generated_values[returned[i].configKey] = returned[i].result

\* A ConfigKey is resolved, then another one, then the first again, while a
\* compiled and a persisted resource carry a literal for it.
C2_Witness ==
    \E i, m, j \in 1..Len(returned) :
        /\ i < m /\ m < j
        /\ returned[i].configKey = returned[j].configKey
        /\ returned[i].configKey # returned[m].configKey
        /\ Truthy(LiteralOf(CreatedSpec(g0, returned[i].configKey.reference),
                            returned[i].configKey))
        /\ Truthy(LiteralOf(ExistingSpec(g0, returned[i].configKey.reference),
                            returned[i].configKey))

\* C3: precedence rule 1. Every value get_generated_id returns for a ConfigKey
\* whose resource was compiled in this run with a literal for that field is
\* that literal, and nothing is allocated for such a ConfigKey.
C3_CompiledLiteralFirst ==
    /\ \A i \in 1..Len(returned) :
          Truthy(LiteralOf(CreatedSpec(g0, returned[i].configKey.reference),
                           returned[i].configKey))
          => returned[i].result
                 = LiteralOf(CreatedSpec(g0, returned[i].configKey.reference),
                             returned[i].configKey).id
    /\ \A configKey \in DOMAIN generated_values :
          ~Truthy(LiteralOf(CreatedSpec(g0, configKey.reference), configKey))

(***************************************************************************)
(* The orchestrator, C4 to C6.                                             *)
(***************************************************************************)
ValidationStages ==
    {"check_duplicates", "map_config_locations", "compile_configs", "link_resources"}

\* C4: a step that leaves the run with an error of duplicate checking, of the
\* locate pass, of compilation or of the merge pass changes no file, and the
\* run has then written no file and sent no request.
C4_NoWriteOnError ==
    [][stage_error' \in ValidationStages
          => /\ disk' = disk
             /\ written' = <<>>
             /\ requests' = <<>>
             /\ pushed' = <<>>]_vars

\* A run over files that exist has ended in the validation phase.
C4_Witness ==
    /\ pc = "done"
    /\ stage_error \in ValidationStages
    /\ disk # <<>>
    /\ new_configs # <<>>
    /\ written = <<>>
    /\ requests = <<>>

\* C5: a run that reached the push stage has attempted the push of every
\* compiled resource when it ends, whatever the earlier pushes did.
C5_EveryPushAttempted ==
    (pc = "done" /\ stage_error \in {"", "push"})
    => \A i \in 1..Len(compiled_resources) :
          \E n \in 1..Len(pushed) :
              pushed[n].reference = reference(compiled_resources[i])

\* C6: a run ends with a non-zero status exactly when a stage reported an
\* error or the push of some resource was not reported as applied.
C6_StatusReflectsErrors ==
    pc = "done"
    => (exit_status # 0
           <=> \/ stage_error # ""
               \/ \E n \in 1..Len(pushed) : pushed[n].result # "True")

(***************************************************************************)
(* Authorization, C7 to C10. pushed[i] is the push of compiled_resources[i]*)
(* and requests holds the requests of this run in the order they were sent.*)
(***************************************************************************)
RequestsFor(ref) == {n \in 1..Len(requests) : requests[n].reference = ref}

\* C7: once a request that carried a key was answered 401, no later request
\* of the run carries that key value.
C7_RejectedNeverResent ==
    \A i, j \in 1..Len(requests) :
        (i < j /\ requests[i].apikey # 0 /\ requests[i].status_code = 401)
        => requests[j].apikey # requests[i].apikey

\* The first Client on the way up .parent from a resource.
RECURSIVE OwningClient(_)
OwningClient(resource) ==
    LET Up(p) == IF p.status # "ok" THEN [status |-> "None"] ELSE OwningClient(p.resource)
    IN  IF resource.kind = "Client" THEN [status |-> "ok", resource |-> resource]
        ELSE Up(parent(g0, resource))

\* An ApiKey belongs to a client when it names the client, or carries the
\* literal clientId the client's document carries.
OwnsKey(client, apikey) ==
    LET Same(owner, id) ==
            IF IsDeferredValue(owner) THEN owner.configKey.reference = reference(client)
            ELSE ~IsDeferredValue(id) /\ owner.id = id.id
    IN  Same(apikey.config.spec[PyStr("clientId")], client.config.spec[PyStr("clientId")])

\* The key value of an ApiKey: its literal, or the one generated for it.
KeyValue(apikey) ==
    LET Of(value) ==
            IF ~IsDeferredValue(value) THEN value.id
            ELSE IF value.configKey \in DOMAIN generated_values
            THEN generated_values[value.configKey]
            ELSE 0
    IN  Of(apikey.config.spec[PyStr("apiKey")])

ApiKeys == {o.resource : o \in Range(get_resources_by_type(g0, "ApiKey"))}

KeysOf(client) == {KeyValue(apikey) : apikey \in {k \in ApiKeys : OwnsKey(client, k)}}

\* The keys of a client that no request for another resource saw rejected.
ValidKeysOf(client, ref) ==
    {key \in KeysOf(client) :
        \A n \in 1..Len(requests) :
            (requests[n].apikey = key /\ requests[n].status_code = 401)
            => requests[n].reference = ref}

\* A chain A -> B -> C with C the root, where neither A nor C has a key and
\* B has a valid one.
CascadeChain(A, ref) ==
    LET Root(B, C) ==
            /\ C.status = "ok"
            /\ parent(g0, C.resource).status = "None"
            /\ Cardinality({reference(A), reference(B.resource),
                            reference(C.resource)}) = 3
            /\ KeysOf(A) = {}
            /\ KeysOf(C.resource) = {}
            /\ ValidKeysOf(B.resource, ref) # {}
        Middle(B) == B.status = "ok" /\ Root(B, parent(g0, B.resource))
    IN  Middle(parent(g0, A))

\* C8: the push of a resource whose owning client A has a chain A -> B -> C
\* with a valid credential only on B sends a request with B's credential,
\* and reports the resource applied when that request is answered 200.
C8_Cascade ==
    \A i \in 1..Len(pushed) :
        LET Sent(owner) ==
                (owner.status = "ok" /\ CascadeChain(owner.resource, pushed[i].reference))
                => \E n \in RequestsFor(pushed[i].reference) :
                      /\ requests[n].apikey
                            \in ValidKeysOf(parent(g0, owner.resource).resource,
                                            pushed[i].reference)
                      /\ requests[n].status_code = 200 => pushed[i].result = "True"
        IN  compiled_resources[i].kind # "ApiKey"
            => Sent(OwningClient(compiled_resources[i]))

\* The push of a resource other than an ApiKey went through the cascade and
\* no request that carried a key was answered anything but 401.
Exhausted(i) ==
    /\ compiled_resources[i].kind # "ApiKey"
    /\ pushed[i].result \in {"True", "False", "RecursionError"}
    /\ \A n \in RequestsFor(pushed[i].reference) :
          requests[n].apikey # 0 => requests[n].status_code = 401

C10_AttachFallback ==
    \A i \in 1..Len(pushed) :
        LET Attached(own, sent) ==
                /\ (/\ pushed[i].result \in {"True", "False"}
                    /\ \A n \in sent : requests[n].apikey # own
                                        => requests[n].status_code # 200)
                   => \E n \in sent : requests[n].apikey = own
                /\ pushed[i].result = "True"
                   => \E n \in sent : requests[n].status_code = 200
        IN  compiled_resources[i].kind = "ApiKey"
            => Attached(KeyValue(compiled_resources[i]), RequestsFor(pushed[i].reference))

(***************************************************************************)
(* References and namespaces, C11 to C13. updated_configs is the output of *)
(* the merge pass: the files it returns, each with all its documents.      *)
(***************************************************************************)
\* The resource names its parent (parentName, clientName, owner, loop) and no
\* compiled and no persisted resource has that kind and name.
Unresolved(resource) ==
    LET Missing(p) ==
            /\ p.type = "ResourceReference"
            /\ get_resource_by_reference(g0, ResourceReference(p.kind, p.name)).status # "ok"
    IN  Missing(resource.parent_ref_or_id)

\* The run has left the validation phase without an error.
Merged == pc \in {"save", "push"} \/ (pc = "done" /\ stage_error \in {"", "push"})

\* C11: no identifier is allocated for a reference that matches no compiled
\* and no persisted resource, and a run whose desired set names a parent, an
\* owner or a loop that matches no resource ends in the validation phase.
C11_UnresolvedReferenceFails ==
    /\ \A configKey \in DOMAIN generated_values :
          get_resource_by_reference(g0, configKey.reference).status = "ok"
    /\ (\E i \in 1..Len(compiled_resources) : Unresolved(compiled_resources[i]))
          => ~Merged

\* The namespace a resource carries itself: a string, or the remote of a
\* client; "" when it carries none.
LiteralNamespace(resource) == namespace(resource).remote

\* The documents of this kind and name in a list of files, each with the
\* path of its file and its ordinal there.
DocumentsIn(files, ref) ==
    {d \in UNION {{[path |-> files[f].path, ordinal |-> n, config |-> files[f].configs[n]]
                      : n \in 1..Len(files[f].configs)} : f \in 1..Len(files)} :
        d.config.kind = ref.kind /\ d.config.metadata.name = ref.name}

MergedDocuments(ref) == DocumentsIn(updated_configs, ref)

\* The namespace a resource was resolved to: the one of its document in the
\* merge output when it was compiled, else the one its persisted document has.
ResolvedNamespace(resource) ==
    LET Of(docs) ==
            IF CompiledIndex(g0, reference(resource)) = 0 \/ docs = {}
            THEN LiteralNamespace(resource)
            ELSE LET At(d) == d.config.metadata.namespace.remote
                 IN  At(CHOOSE d \in docs : TRUE)
    IN  Of(MergedDocuments(reference(resource)))

C13_NamespaceTerminates == pc # "hang"

(***************************************************************************)
(* The merge pass and the writes, C14 to C18. While pc = "save" the merge  *)
(* pass has returned updated_configs and disk is still what the run found. *)
(***************************************************************************)
Places(docs) == {[path |-> d.path, ordinal |-> d.ordinal] : d \in docs}

ReferenceOf(config) == ResourceReference(config.kind, config.metadata.name)

\* C14: for every compiled resource that has a persisted document, the merge
\* output holds the resource's materialized document at the path and the
\* ordinal of that persisted document, and a document of that kind and name
\* nowhere else.
C14_MergedInPlace ==
    pc = "save" =>
        \A i \in 1..Len(compiled_resources) :
            LET InPlace(resource, persisted, merged) ==
                    persisted # {}
                    => /\ Places(merged) = Places(persisted)
                       /\ \A d \in merged : d.config = ResourceLink(g0, resource).config
            IN  InPlace(compiled_resources[i],
                        DocumentsIn(disk, reference(compiled_resources[i])),
                        MergedDocuments(reference(compiled_resources[i])))

\* A resource of a bundle replaces a different persisted document in a file
\* that holds a second document.
C14_Witness ==
    /\ pc = "save"
    /\ \E i \in 1..Len(compiled_resources) :
       \E d \in DocumentsIn(disk, reference(compiled_resources[i])) :
          /\ Len(disk[FileIndex(disk, d.path)].configs) > 1
          /\ \E m \in MergedDocuments(reference(compiled_resources[i])) :
                m.config # d.config

\* C15: no step removes a file, shortens a file, or changes or moves a
\* document whose kind and name no compiled resource has.
C15_NoDeletion ==
    [][disk' # disk
       => \A f \in 1..Len(disk) :
             /\ FileIndex(disk', disk[f].path) > 0
             /\ Len(disk'[FileIndex(disk', disk[f].path)].configs) >= Len(disk[f].configs)
             /\ \A n \in 1..Len(disk[f].configs) :
                   CompiledIndex(g0, ReferenceOf(disk[f].configs[n])) = 0
                   => disk'[FileIndex(disk', disk[f].path)].configs[n]
                          = disk[f].configs[n]
      ]_vars

\* A run has rewritten a file that holds a document no compiled resource
\* corresponds to, beside one that was replaced.
C15_Witness ==
    /\ pc = "push"
    /\ \E f \in 1..Len(disk) :
          /\ disk[f].path \in Range(written)
          /\ \E n \in 1..Len(disk[f].configs) :
                CompiledIndex(g0, ReferenceOf(disk[f].configs[n])) = 0
          /\ \E n \in 1..Len(disk[f].configs) :
                CompiledIndex(g0, ReferenceOf(disk[f].configs[n])) > 0

\* C16: a step of a run that follows an earlier run of the same desired set
\* creates no file and leaves every file with the number of documents it had.
C16_SecondRunAddsNothing ==
    [][(run > 1 /\ disk' # disk)
       => /\ {disk'[f].path : f \in 1..Len(disk')} = {disk[f].path : f \in 1..Len(disk)}
          /\ \A f \in 1..Len(disk) :
                Len(disk'[FileIndex(disk', disk[f].path)].configs) = Len(disk[f].configs)
      ]_vars

\* The second run has written the files the first run created.
C16_Witness ==
    /\ run = 2
    /\ pc = "push"
    /\ written # <<>>
    /\ \E i \in 1..Len(compiled_resources) :
          compiled_resources[i].config.metadata.namespace.type = "Remote"

\* C17: a new resource is always given a path: when kind/name is in use the
\* merge pass does not fail, and the path it picks is not in use.
C17_CollisionAvoided ==
    pc = "link_resources" =>
        \A i \in 1..Len(compiled_resources) :
            LET Placed(p) == p.status = "ok" /\ ~PathExists(disk, p.result)
            IN  ExistingIndex(g0, reference(compiled_resources[i])) = 0
                => Placed(create_resource_path(
                              disk, ResourceFolder(reference(compiled_resources[i])),
                              compiled_resources[i].config))

\* The documents of the merge output whose kind and name no persisted
\* document has.
NewDocuments ==
    {d \in UNION {MergedDocuments(reference(compiled_resources[i]))
                     : i \in 1..Len(compiled_resources)} :
        DocumentsIn(disk, ReferenceOf(d.config)) = {}}

\* C18: in the merge output the document of a new ApiKey is in a file below
\* the secrets root and the document of a new resource of any other kind in
\* a file below the resources root.
C18_SecretsSeparation ==
    pc = "save" =>
        \A d \in NewDocuments :
            d.path.folder = (IF d.config.kind = "ApiKey" THEN "secrets" ELSE "resources")

\* One run places a new ApiKey and a new resource of another kind.
C18_Witness ==
    /\ pc = "save"
    /\ \E d \in NewDocuments : d.config.kind = "ApiKey"
    /\ \E d \in NewDocuments : d.config.kind # "ApiKey"

(***************************************************************************)
(* The order of the pushes, C19 and C20.                                   *)
(***************************************************************************)
\* C19: no resource is pushed after a resource of a later kind, in the order
\* ApiKey, Client, Group, Loop, Stream, Cluster.
C19_PushOrder ==
    \A i, j \in 1..Len(pushed) :
        i < j => CONFIG_PRIORITY[pushed[i].reference.kind]
                     <= CONFIG_PRIORITY[pushed[j].reference.kind]

\* The end-to-end scenario: the desired set is one bundle that declares a
\* client with a remote and an ApiKey for that client, and nothing is
\* persisted. client and apikey are their positions in compiled_resources.
Bootstrap(client, apikey) ==
    /\ existing_resources = <<>>
    /\ Len(compiled_resources) = 2
    /\ compiled_resources[client].kind = "Client"
    /\ namespace(compiled_resources[client]).type = "Remote"
    /\ LiteralNamespace(compiled_resources[client]) # ""
    /\ compiled_resources[apikey].kind = "ApiKey"
    /\ compiled_resources[apikey].parent_ref_or_id
           = ParentReference("Client", compiled_resources[client].name)

\* The requests sent for a compiled resource, as positions in requests.
RequestsOf(i) == RequestsFor(reference(compiled_resources[i]))

\* C20 as stated: in the end-to-end scenario the request that pushes the
\* Client is sent before the request that attaches the ApiKey, and the
\* attach request carries the ApiKey's own generated key value.
C20_ClientPushedFirst ==
    \A client, apikey \in 1..Len(compiled_resources) :
        (Bootstrap(client, apikey) /\ pc = "done" /\ stage_error = "")
        => /\ RequestsOf(client) # {}
           /\ RequestsOf(apikey) # {}
           /\ \A m \in RequestsOf(client), n \in RequestsOf(apikey) : m < n
           /\ \A n \in RequestsOf(apikey) :
                 requests[n].apikey = KeyValue(compiled_resources[apikey])

\* C20: in the end-to-end scenario the request that attaches the ApiKey is
\* sent before every request that pushes the Client, the attach request
\* carries the ApiKey's own generated key value, and so does the first
\* request that pushes the Client; a run that ends without an error has sent
\* both.
C20_BootstrapOrder ==
    \A client, apikey \in 1..Len(compiled_resources) :
        Bootstrap(client, apikey)
        => /\ \A m \in RequestsOf(apikey), n \in RequestsOf(client) : m < n
           /\ \A m \in RequestsOf(apikey) :
                 /\ requests[m].apikey = KeyValue(compiled_resources[apikey])
                 /\ requests[m].apikey # 0
           /\ \A n \in RequestsOf(client) :
                 (\A k \in RequestsOf(client) : n <= k)
                 => requests[n].apikey = KeyValue(compiled_resources[apikey])
           /\ (pc = "done" /\ stage_error = "")
                 => RequestsOf(client) # {} /\ RequestsOf(apikey) # {}

\* The scenario has run to its end: the key was attached and the Client pushed.
C20_Witness ==
    \E client, apikey \in 1..Len(compiled_resources) :
        /\ Bootstrap(client, apikey)
        /\ pc = "done"
        /\ stage_error = ""
        /\ RequestsOf(client) # {}
        /\ RequestsOf(apikey) # {}

(***************************************************************************)
(* Scenarios and error handling, C21 to C28.                               *)
(***************************************************************************)
\* The desired set of this run is the files of a scenario.
Applying(scenario) ==
    new_configs = sorted(Chain([i \in 1..Len(scenario) |->
                                   read_resource_configs_file(scenario[i])]))

\* The storage roots hold nothing but what this run wrote.
NothingPersisted == \A i \in 1..Len(disk) : disk[i].path \in Range(written)

AllKeys(configs) ==
    Chain([i \in 1..Len(configs) |->
              IF is_itl_resource(configs[i].config) THEN expand_keys(configs[i].config)
              ELSE <<>>])

Repeated(configs) ==
    {key \in Range(AllKeys(configs)) : Occurrences(AllKeys(configs), key) > 1}

DeclaringFiles(configs, key) ==
    {configs[i].path :
        i \in {j \in 1..Len(configs) :
                  /\ is_itl_resource(configs[j].config)
                  /\ key \in Range(expand_keys(configs[j].config))}}

Orderings(configs) ==
    {[i \in 1..Len(configs) |-> configs[p[i]]] :
        p \in {q \in [1..Len(configs) -> 1..Len(configs)] :
                  \A i, j \in 1..Len(configs) : q[i] = q[j] => i = j}}

\* The contract of the duplicate detector for one document set.
DetectsDuplicates(configs) ==
    /\ check_duplicates(configs) <=> Repeated(configs) # {}
    /\ Duplicates(configs)
           = {[key |-> key, files |-> DeclaringFiles(configs, key)]
                 : key \in Repeated(configs)}
    /\ \A ordering \in Orderings(configs) :
          /\ check_duplicates(ordering) <=> check_duplicates(configs)
          /\ Duplicates(ordering) = Duplicates(configs)

\* C22: the desired set and the persisted set are each rejected exactly when
\* a (kind, name) key is declared more than once in it, bundles expanded;
\* every such key is reported once, with all files that declare it; and the
\* outcome and the report are the same for every order of the documents.
C22_DuplicateDetection ==
    pc = "check_duplicates"
    => DetectsDuplicates(new_configs) /\ DetectsDuplicates(prior_configs)

\* The value a field of a payload materializes to: a placeholder becomes the
\* identifier stored for its ConfigKey, anything else is itself.
Materialized(value) ==
    IF IsDeferredValue(value) THEN PyId(generated_values[value.configKey]) ELSE value

RECURSIVE SearchPath(_, _)
SearchPath(client_id, n) ==
    LET Up(parent_id) ==
            IF parent_id.status = "None" THEN <<>>
            ELSE SearchPath(parent_id.result, n - 1)
    IN  IF n = 0 THEN <<>>
        ELSE <<client_id.id>> \o Up(get_client_parent_id(g0, client_id))

\* The key values of the ApiKeys whose clientId is the given identifier.
KeysAt(id) ==
    {KeyValue(apikey) :
        apikey \in {k \in ApiKeys : Materialized(k.config.spec[PyStr("clientId")]).id = id}}

\* The target client id of the push of compiled resource i: the clientId of
\* an ApiKey, else the id of the first Client on the way up.
TargetOf(i) ==
    LET Of(owner) ==
            IF owner.status # "ok" THEN <<>>
            ELSE << ResourceId("Client",
                               Materialized(owner.resource.config.spec[PyStr("clientId")]).id) >>
    IN  IF compiled_resources[i].kind = "ApiKey"
        THEN << ResourceId("Client",
                           Materialized(compiled_resources[i].config.spec[PyStr("clientId")]).id) >>
        ELSE Of(OwningClient(compiled_resources[i]))

\* No request for another resource was answered 401 for this key value.
ValidFor(key, ref) ==
    \A n \in 1..Len(requests) :
        (requests[n].apikey = key /\ requests[n].status_code = 401)
        => requests[n].reference = ref

\* In the requests of a push, a key found at position l of the path is sent
\* only after every valid key found nearer was sent and answered 401.
NearestFirst(ref, path) ==
    \A n \in RequestsFor(ref) :
        \A l \in 1..Len(path) :
            (/\ requests[n].apikey \in KeysAt(path[l])
             /\ \A h \in 1..(l - 1) : requests[n].apikey \notin KeysAt(path[h]))
            => \A h \in 1..(l - 1) :
                  \A key \in KeysAt(path[h]) :
                      ValidFor(key, ref)
                      => \E m \in RequestsFor(ref) :
                            /\ m < n
                            /\ requests[m].apikey = key
                            /\ requests[m].status_code = 401

\* The run has made a push and has not left the push loop since, unless by
\* an exception of that push.
JustPushed ==
    /\ pushed # <<>>
    /\ pc = "push" \/ (pc = "done" /\ stage_error = "push")

\* C24: in the push the run has just made, the keys of the target client
\* are tried before the keys of its parent, nearer ancestors before farther
\* ones, and a key of an ancestor is sent only after every valid key of all
\* nearer clients was answered 401.
C24_SearchOrder ==
    JustPushed
    => LET Ordered(target) ==
               target # <<>>
               => NearestFirst(pushed[Len(pushed)].reference,
                               SearchPath(target[1], KnownResources(g0) + 1))
       IN  Ordered(TargetOf(Len(pushed)))

\* The push of a resource sent a key of its client, which was answered 401,
\* and then a key of the parent of its client.
C24_Witness ==
    /\ pc = "push"
    /\ pushed # <<>>
    /\ \E n, m \in RequestsFor(pushed[Len(pushed)].reference) :
          LET Sent(path) ==
                  /\ Len(path) >= 2
                  /\ requests[m].apikey \in KeysAt(path[1])
                  /\ requests[m].status_code = 401
                  /\ requests[n].apikey \in KeysAt(path[2])
                  /\ requests[n].apikey \notin KeysAt(path[1])
              At(target) ==
                  target # <<>> /\ Sent(SearchPath(target[1], KnownResources(g0) + 1))
          IN  m < n /\ At(TargetOf(Len(pushed)))

\* C25: the credential search of every push ends: no push is left by the
\* recursion of apikeys_for_client running out of stack, also when persisted
\* clients name each other as parent and every key found was rejected.
C25_SearchTerminates ==
    \A i \in 1..Len(pushed) : pushed[i].result # "RecursionError"

\* The ApiKey objects of a key value.
ObjectsOf(key) == {apikey \in ApiKeys : KeyValue(apikey) = key}

\* The push the run has just made got an answer that is neither 200 nor 401
\* to request n: the push is reported failed, n is its last request, the key
\* it carried is still valid, and the push loop goes on.
TransportFailure(ref, n) ==
    requests[n].status_code \notin {200, 401}
    => /\ pushed[Len(pushed)].result = "False"
       /\ \A m \in RequestsFor(ref) : m <= n
       /\ requests[n].apikey # 0
             => \E apikey \in ObjectsOf(requests[n].apikey) : apikey.valid
       /\ pc = "push"
       /\ push_index = Len(pushed) + 1

\* The last push, when it is not the attach of an ApiKey, reports a failure
\* other than 401 as TransportFailure says; and an ApiKey is invalid only if
\* a request that carried its key value was answered 401.
FailureReported ==
    /\ compiled_resources[Len(pushed)].kind # "ApiKey"
       => \A n \in RequestsFor(pushed[Len(pushed)].reference) :
             TransportFailure(pushed[Len(pushed)].reference, n)
    /\ \A apikey \in ApiKeys :
          ~apikey.valid
          => \E n \in 1..Len(requests) :
                /\ requests[n].apikey = KeyValue(apikey)
                /\ requests[n].status_code = 401

Compiles(config) == compile_config(config).status = "ok"

\* C27: when a desired document, or a member of a desired bundle, fails its
\* schema check, every other desired document is still compiled and stored,
\* and the run then ends with the one failure of the compile stage: nothing
\* is merged, written or pushed. A run that has just got past the compile
\* stage has no document that fails.
C27_PartialFailure ==
    /\ (pc = "done" /\ stage_error = "compile_configs")
       => /\ \E i \in 1..Len(new_configs) : ~Compiles(new_configs[i].config)
          /\ \A i \in 1..Len(new_configs) :
                Compiles(new_configs[i].config)
                => \A r \in Range(compile_config(new_configs[i].config).resources) :
                      CompiledIndex(g0, reference(r)) > 0
          /\ updated_configs = <<>>
          /\ written = <<>>
          /\ requests = <<>>
          /\ pushed = <<>>
    /\ pc = "link_resources"
       => \A i \in 1..Len(new_configs) : Compiles(new_configs[i].config)

\* The bundle whose group has an unknown key was compiled first and failed;
\* the Client document that follows it was compiled and stored.
C27_Witness ==
    /\ Applying(UnknownKey)
    /\ pc = "done"
    /\ stage_error = "compile_configs"
    /\ new_configs[1].config.kind = "ResourceDefs"
    /\ {reference(compiled_resources[i]) : i \in 1..Len(compiled_resources)}
           = {ResourceReference("Client", "c")}

WrittenDocuments(ref) == {d \in DocumentsIn(disk, ref) : d.path \in Range(written)}

\* The requests of the last push carry the spec of the written document.
SentAsWritten ==
    LET Sent(docs) ==
            /\ docs # {}
            /\ \A n \in RequestsFor(pushed[Len(pushed)].reference) :
                  \A d \in docs : requests[n].json = d.config.spec
    IN  Sent(WrittenDocuments(pushed[Len(pushed)].reference))

\* C29: every request a run sends for a compiled resource, by a push or by
\* the attach of an ApiKey, carries as its body the spec of the document
\* this run wrote to storage for that resource.
C29_WrittenEqualsPushed == [][Len(pushed') > Len(pushed) => SentAsWritten']_vars

\* A Client and an ApiKey, each with an identifier allocated by this run in
\* its payload, were sent to the remote service.
C29_Witness ==
    /\ pc = "push"
    /\ \E i, j \in 1..Len(compiled_resources) :
          /\ compiled_resources[i].kind = "Client"
          /\ compiled_resources[i].config.spec[PyStr("clientId")].type = "DeferredId"
          /\ compiled_resources[j].kind = "ApiKey"
          /\ compiled_resources[j].config.spec[PyStr("apiKey")].type = "ApiKeyId"
          /\ \E n \in RequestsOf(i) :
                requests[n].json[PyStr("clientId")]
                    = Materialized(compiled_resources[i].config.spec[PyStr("clientId")])
          /\ \E m \in RequestsOf(j) :
                requests[m].json[PyStr("apiKey")]
                    = Materialized(compiled_resources[j].config.spec[PyStr("apiKey")])

\* The key set has every required key and no key that is neither required
\* nor optional.
ValidKeySet(keys, required, optional) ==
    /\ \A k \in required : k \in keys
    /\ \A k \in keys : k \in required \/ k \in optional

ValidMember(member) ==
    ValidKeySet(DOMAIN member.config, BundleRequired(member.kind),
                BundleOptional(member.kind))

ValidSpec(config) ==
    ValidKeySet(DOMAIN config.spec, PyStrs(SpecRequired(config.kind)),
                PyStrs(SpecOptional(config.kind)))

\* The locate pass, which constructs the persisted documents, has just ended.
JustLocated ==
    pc = "compile_configs" \/ (pc = "done" /\ stage_error = "map_config_locations")

\* The compile stage, which constructs the desired documents and the members
\* of the desired bundles, has just ended.
JustCompiled ==
    pc = "link_resources" \/ (pc = "done" /\ stage_error = "compile_configs")

\* Construction in both modes as a function of what is valid in standalone
\* mode: a member of a bundle is constructed iff its key set is valid, the
\* members of a bundle are stored iff all of them are, and a document is
\* constructed and stored iff Standalone holds of it.
SchemaCheck(Standalone(_)) ==
    /\ JustLocated
       => \A i \in 1..Len(prior_configs) :
             ExistingIndex(g0, ReferenceOf(prior_configs[i].config)) > 0
                 <=> Standalone(prior_configs[i].config)
    /\ JustCompiled
       => \A i \in 1..Len(new_configs) :
             LET Stored(members) ==
                     \A m \in Range(members) :
                         /\ "name" \in DOMAIN m.config
                         /\ CompiledIndex(g0, ResourceReference(m.kind, m.config.name)) > 0
                 Members(members) ==
                     /\ \A m \in Range(members) :
                           FromResourceDefs(m.kind, m.config).status = "ok" <=> ValidMember(m)
                     /\ Stored(members) <=> \A m \in Range(members) : ValidMember(m)
                 Config(config) ==
                     IF config.kind = "ResourceDefs"
                     THEN Members(BundleMembers(config.spec, 1))
                     ELSE CompiledIndex(g0, ReferenceOf(config)) > 0 <=> Standalone(config)
             IN  Config(new_configs[i].config)

DocumentsOf(ref) ==
    IF CompiledIndex(g0, ref) > 0 THEN MergedDocuments(ref) ELSE DocumentsIn(disk, ref)

\* The document of a compiled resource carries, as the id of its owner or
\* parent, the id the documents of that owner or parent carry.
Consistent(resource, p) ==
    \A d \in MergedDocuments(reference(resource)) :
        \A o \in DocumentsOf(ResourceReference(p.kind, p.name)) :
            /\ PyStr(ParentField(resource.kind)) \in DOMAIN d.config.spec
            /\ PyStr(IdField(p.kind)) \in DOMAIN o.config.spec
            /\ d.config.spec[PyStr(ParentField(resource.kind))]
                   = o.config.spec[PyStr(IdField(p.kind))]

\* C31: when the merge pass returns, every compiled resource that names its
\* owner or parent by declared name has, in its document, the id that the
\* document of that owner or parent has, whether the owner or parent was
\* compiled in this run or is only in the storage roots.
C31_CrossReference ==
    pc = "save"
    => \A i \in 1..Len(compiled_resources) :
          compiled_resources[i].parent_ref_or_id.type = "ResourceReference"
          => Consistent(compiled_resources[i], compiled_resources[i].parent_ref_or_id)

\* The last push sent a request without a credential exactly when every
\* request of it that carried one was answered 401 (none was sent when the
\* cascade had no candidate), and then apply returned what that request got.
FallsBack(ref, result) ==
    LET Bare == {n \in RequestsFor(ref) : requests[n].apikey = 0}
    IN  /\ Bare # {}
           <=> \A n \in RequestsFor(ref) :
                  requests[n].apikey # 0 => requests[n].status_code = 401
        /\ \A n \in Bare :
              result = (IF requests[n].status_code = 200 THEN "True" ELSE "False")

\* C32: the push the run has just made, of a resource other than an ApiKey
\* whose ownership chain reaches a Client, sent a request without a
\* credential if and only if every credential of the cascade was answered
\* 401 or the cascade had none, and its outcome is then the outcome of that
\* request.
C32_UnauthenticatedFallback ==
    (/\ JustPushed
     /\ compiled_resources[Len(pushed)].kind # "ApiKey"
     /\ OwningClient(compiled_resources[Len(pushed)]).status = "ok")
    => FallsBack(pushed[Len(pushed)].reference, pushed[Len(pushed)].result)

====
